---- MODULE Spec2Model ----
(***************************************************************************)
(* Expression and call lowering of the dsp compiler                        *)
(* (src/src/irgen/expr.rs: compile_expr, compile_expr_call).               *)
(*                                                                         *)
(* An expression node is a record [node, n, name, kids]:                   *)
(*   node  the ExpressionType variant ("Integer", "Float", "Complex" are   *)
(*         the three ast::Number variants),                                *)
(*   n     the literal's number (Integer, Float),                          *)
(*   name  the identifier, the string's text or the operator,              *)
(*   kids  the sub-expressions; for a Call kids[1] is the callee and       *)
(*         kids[i+1] is the i-th argument.                                 *)
(* A node's source location is its path from the root of the statement's   *)
(* expression: <<>> for the root, p \o <<k>> for the k-th kid of p.        *)
(*                                                                         *)
(* A Value is a record [tag, n, src]: the ValueType tag, the number the    *)
(* backend handle denotes (constants are folded; a load denotes the slot's *)
(* content), and the location of the expression whose lowering made it.    *)
(*                                                                         *)
(* A panic! / unwrap / expect is a failed result: the kind of failure,     *)
(* whether its message holds current_source_location, and the name it      *)
(* reports. Lowering stops at the first failure.                           *)
(*                                                                         *)
(* The Compare arm (compile_comparison) is not part of this model.         *)
(***************************************************************************)
EXTENDS Integers, Sequences, FiniteSets, TLC

VARIABLES variables, fn_scope, fn_value_opt, functions,
          current_source_location, log, expr, res, pc

vars == <<variables, fn_scope, fn_value_opt, functions,
          current_source_location, log, expr, res, pc>>

(* ------------------------------ bounds --------------------------------- *)

\* the longest argument list of a call
MaxArgs == 3

\* the longest parameter list of a declared function
MaxParams == 2

(* ------------------------------ helpers -------------------------------- *)

Min(a, b) == IF a <= b THEN a ELSE b

Max(a, b) == IF a >= b THEN a ELSE b

SeqsUpTo(S, k) == UNION {[1..m -> S] : m \in 0..k}

(* ---------------------------- syntax tree ------------------------------ *)

Node(node, n, name, kids) == [node |-> node, n |-> n, name |-> name, kids |-> kids]

Integer(n) == Node("Integer", n, "", <<>>)

Float(n) == Node("Float", n, "", <<>>)

Complex == Node("Complex", 0, "", <<>>)

String(s) == Node("String", 0, s, <<>>)

Identifier(name) == Node("Identifier", 0, name, <<>>)

NoneExpr == Node("None", 0, "", <<>>)

TrueExpr == Node("True", 0, "", <<>>)

FalseExpr == Node("False", 0, "", <<>>)

Ellipsis == Node("Ellipsis", 0, "", <<>>)

Lambda == Node("Lambda", 0, "", <<>>)

Unop(op, a) == Node("Unop", 0, op, <<a>>)

Binop(a, op, b) == Node("Binop", 0, op, <<a, b>>)

Call(function, args) == Node("Call", 0, "", <<function>> \o args)

(* ------------------------------- values -------------------------------- *)

IntTypes == {"I8", "I16"}

BitWidth(ty) == IF ty = "I8" THEN 8 ELSE 16

Pow2(w) == IF w = 8 THEN 256 ELSE 65536

\* the signed number a w-bit pattern denotes
Signed(w, u) == IF (u % Pow2(w)) >= (Pow2(w) \div 2) THEN (u % Pow2(w)) - Pow2(w) ELSE (u % Pow2(w))

Val(tag, n, src) == [tag |-> tag, n |-> n, src |-> src]

NoLocation == <<0>>

NoValue == Val("", 0, NoLocation)

NoError == [kind |-> "", located |-> FALSE, loc |-> NoLocation, name |-> ""]

Ev(ev, path, name, vals) == [ev |-> ev, path |-> path, name |-> name, vals |-> vals]

\* the compiler state a lowering threads through: the backend's emissions
\* and function-table lookups so far, and current_source_location
St(l, loc) == [log |-> l, loc |-> loc]

Emit(st, e) == St(Append(st.log, e), st.loc)

Ok(v, st) == [ok |-> TRUE, val |-> v, vals |-> <<>>, err |-> NoError, log |-> st.log, loc |-> st.loc]

Panic(kind, located, name, st) == [ok |-> FALSE, val |-> NoValue, vals |-> <<>>, err |-> [kind |-> kind, located |-> located, loc |-> IF located THEN st.loc ELSE NoLocation, name |-> name], log |-> st.log, loc |-> st.loc]

StOf(r) == St(r.log, r.loc)

(* ------------------------ integer literals ----------------------------- *)

\* a u64 as four 16-bit limbs, least significant first
Limbs(mag) == <<mag % 65536, (mag \div 65536) % 65536, 0, 0>>

Carry(x) == x \div 65536

\* u64::wrapping_neg: invert every bit and add one
wrapping_neg(l) == LET a == (65535 - l[1]) + 1
                       b == (65535 - l[2]) + Carry(a)
                       c == (65535 - l[3]) + Carry(b)
                       d == (65535 - l[4]) + Carry(c)
                   IN  <<a % 65536, b % 65536, c % 65536, d % 65536>>

\* value::convert::truncate_bigint_to_u64: the magnitude's low 64 bits,
\* negated with wrap-around for a negative number
truncate_bigint_to_u64(value) == IF value < 0 THEN wrapping_neg(Limbs(-value)) ELSE Limbs(value)

\* IntType::const_int on i16_type with sign_extend: the low 16 bits, signed
const_int_i16(u64) == Signed(16, u64[1])

NumberInteger_i8(value, path) == Val("I8", Signed(8, truncate_bigint_to_u64(value)[1]), path)

\* match arm ast::Number::Integer
NumberInteger(value, path) == Val("I16", const_int_i16(truncate_bigint_to_u64(value)), path)

UnopNegInteger_unnegated(value, path) == Val("I16", const_int_i16(truncate_bigint_to_u64(value)), path)

\* match arm Unop / Integer / UnaryOperator::Neg
UnopNegInteger(value, path) == Val("I16", const_int_i16(truncate_bigint_to_u64(-value)), path)

(* ------------------------------ scopes --------------------------------- *)

Names == {"x"}

FnValues == {"main"}

GlobalTypes == {"I16", "I8"}

LocalTypes == {"F32", "Str"}

Symbol(ty, pointer) == [ty |-> ty, pointer |-> pointer]

ScopesOf(scope, types) == UNION {{[nm \in D |-> Symbol(t[nm], scope \o "." \o nm)] : t \in [D -> types]} : D \in SUBSET Names}

\* the content of a storage slot, by its declared type
Content(ty) == CASE ty = "I8" -> -3
                 [] ty = "I16" -> 300
                 [] ty = "F32" -> 2
                 [] OTHER -> 1

\* Value::from_basic_value(*ty, self.builder.build_load(var, name))
Load(sym, name, path, st) == Ok(Val(sym.ty, Content(sym.ty), path), Emit(st, Ev("build_load", path, sym.pointer, <<>>)))

is_some(opt) == Len(opt) = 1

fn_value == fn_value_opt[1]

Lookup_global_first(name) == IF name \in DOMAIN variables THEN <<variables[name]>> ELSE IF is_some(fn_value_opt) /\ name \in DOMAIN fn_scope[fn_value] THEN <<fn_scope[fn_value][name]>> ELSE <<>>

\* the Symbol the Identifier arm loads from, <<>> when it panics
Lookup(name) == IF ~is_some(fn_value_opt) THEN IF name \in DOMAIN variables THEN <<variables[name]>> ELSE <<>> ELSE IF name \in DOMAIN fn_scope[fn_value] THEN <<fn_scope[fn_value][name]>> ELSE IF name \in DOMAIN variables THEN <<variables[name]>> ELSE <<>>

\* Compiler::errs: the report of an error type at current_source_location
errs(kind, name, st) == Panic(kind, TRUE, name, st)

\* match arm ExpressionType::Identifier
CompileIdentifier(name, path, st) == IF Lookup(name) = <<>> THEN errs("NameError", name, st) ELSE Load(Lookup(name)[1], name, path, st)

(* --------------------------- function table ---------------------------- *)

TagSuffix(ty) == CASE ty = "I8" -> "i8"
                   [] ty = "I16" -> "i16"
                   [] ty = "F32" -> "f32"
                   [] ty = "Str" -> "str"
                   [] ty = "Bool" -> "bool"
                   [] OTHER -> "void"

\* compiler::mangle::mangling
mangling(name, ty) == name \o "." \o TagSuffix(ty)

ParamTypes == {"I8", "I16"}

Signature(params, ret) == [params |-> params, ret |-> ret]

\* Compiler::get_function: <<f>> for Some(f), <<>> for None
get_function(name) == IF name \in DOMAIN functions THEN <<name>> ELSE <<>>

get_params(f) == functions[f].params

(* ------------------------------ casts ---------------------------------- *)

build_int_cast_zext(n, ty) == n % Pow2(BitWidth(ty))

\* Builder::build_int_cast (LLVMBuildIntCast is a signed cast): the number
\* is kept when the type is as wide or wider, cut to the low bits otherwise
build_int_cast(n, ty) == Signed(BitWidth(ty), n)

\* Builder::build_int_truncate: the low bits of the number at the type's width
build_int_truncate(n, ty) == Signed(BitWidth(ty), n)

\* proto.get_type().into_int_type() panics on a type that is no integer
into_int_type(proto) == IF proto \in IntTypes THEN <<proto>> ELSE <<>>

push_front(args_value, v) == <<v>> \o args_value

\* args_value.push
push(args_value, v) == Append(args_value, v)

\* match value { ... } of the pairing loop: the value passed for one pair
CastArgument(value, proto, args_value, st) == CASE value.tag = "I8" -> IF into_int_type(proto) = <<>> THEN Panic("IntoIntType", FALSE, "", st) ELSE [Ok(value, Emit(st, Ev("build_int_cast", value.src, "icast", <<>>))) EXCEPT !.vals = push(args_value, Val(proto, build_int_cast(value.n, proto), value.src))]
                                                [] value.tag = "I16" -> IF into_int_type(proto) = <<>> THEN Panic("IntoIntType", FALSE, "", st) ELSE [Ok(value, Emit(st, Ev("build_int_truncate", value.src, "itrunc", <<>>))) EXCEPT !.vals = push(args_value, Val(proto, build_int_truncate(value.n, proto), value.src))]
                                                [] value.tag \in {"F32", "Str"} -> [Ok(value, st) EXCEPT !.vals = push(args_value, value)]
                                                [] OTHER -> Panic("UnsupportedArgumentType", TRUE, "", st)

(* ------------------------- function resolution ------------------------- *)

Looked(st, path, name) == Emit(st, Ev("get_function", path, name, <<>>))

Resolve_mangled_first(func_name, ty, path, st) == IF get_function(mangling(func_name, ty)) # <<>> THEN [f |-> get_function(mangling(func_name, ty)), st |-> Looked(st, path, mangling(func_name, ty))] ELSE [f |-> get_function(func_name), st |-> Looked(Looked(st, path, mangling(func_name, ty)), path, func_name)]

\* let func = match self.get_function(func_name) { Some(f) => f, None => mangled lookup }
Resolve(func_name, ty, path, st) == IF get_function(func_name) # <<>> THEN [f |-> get_function(func_name), st |-> Looked(st, path, func_name)] ELSE [f |-> get_function(mangling(func_name, ty)), st |-> Looked(Looked(st, path, func_name), path, mangling(func_name, ty))]

IsPlainCallee_or_attribute(func) == func.node \in {"Identifier", "Attribute"}

\* match &func.node { Identifier { name } => name, _ => panic }
IsPlainCallee(func) == func.node = "Identifier"

ZipLength_short(n, m) == Max(Min(n, m) - 1, 0)

\* args.iter().zip(args_proto.iter()): the number of pairs
ZipLength(n, m) == Min(n, m)

ReusesFirstArg_never(i) == FALSE

\* if i == 0 { first_arg } else { self.compile_expr(expr) }; positions count from 1 here
ReusesFirstArg(i) == i = 1

\* res.try_as_basic_value(): the call's Value by the return type
CallResult(f, path, st) == IF functions[f].ret \in {"I8", "I16", "F32", "Void"} THEN Ok(Val(functions[f].ret, 0, path), st) ELSE Panic("Unreachable", FALSE, "", st)

\* Compiler::compile_op: the operator's IR for two lowered operands
compile_op(a, op, b, path, st) == Ok(Val(a.tag, 0, path), Emit(st, Ev("compile_op", path, op, <<a, b>>)))

(* ------------------------------ lowering ------------------------------- *)

RECURSIVE compile_expr(_, _, _)
RECURSIVE compile_expr_call(_, _, _, _)
RECURSIVE LowerArguments(_, _, _, _, _, _, _)

\* for (i, expr_proto) in args.iter().zip(args_proto.iter()).enumerate()
LowerArguments(i, args, args_proto, first_arg, args_value, path, st) ==
    IF i > ZipLength(Len(args), Len(args_proto)) THEN [Ok(NoValue, st) EXCEPT !.vals = args_value]
    ELSE LET value == IF ReusesFirstArg(i) THEN Ok(first_arg, st) ELSE compile_expr(args[i], path \o <<i + 1>>, st)
         IN  IF ~value.ok THEN value
             ELSE LET cast == CastArgument(value.val, args_proto[i], args_value, StOf(value))
                  IN  IF ~cast.ok THEN cast
                      ELSE LowerArguments(i + 1, args, args_proto, first_arg, cast.vals, path, StOf(cast))

compile_expr_call(func, args, path, st) ==
    IF ~IsPlainCallee(func) THEN Panic("UnsupportedCallee", TRUE, "", st)
    ELSE IF args = <<>> THEN Panic("UnwrapNone", FALSE, "", st)
    ELSE LET first_arg == compile_expr(args[1], path \o <<2>>, st)
         IN  IF ~first_arg.ok THEN first_arg
             ELSE LET found == Resolve(func.name, first_arg.val.tag, path, StOf(first_arg))
                  IN  IF found.f = <<>> THEN Panic("UndefinedFunction", TRUE, func.name, found.st)
                      ELSE LET paired == LowerArguments(1, args, get_params(found.f[1]), first_arg.val, <<>>, path, found.st)
                           IN  IF ~paired.ok THEN paired
                               ELSE CallResult(found.f[1], path, Emit(StOf(paired), Ev("build_call", path, found.f[1], paired.vals)))

compile_expr(e, path, st0) ==
    LET st == Emit(St(st0.log, path), Ev("compile_expr", path, e.node, <<>>))
    IN  CASE e.node = "Integer" -> Ok(NumberInteger(e.n, path), st)
          [] e.node = "Float" -> Ok(Val("F32", e.n, path), st)
          [] e.node = "Complex" -> Panic("UnsupportedLiteral", TRUE, "", st)
          [] e.node = "String" -> IF is_some(fn_value_opt) THEN Ok(Val("Str", 0, path), Emit(st, Ev("build_global_string_ptr", path, e.name, <<>>))) ELSE Panic("UnsupportedContext", FALSE, "", st)
          [] e.node = "Call" -> compile_expr_call(e.kids[1], Tail(e.kids), path, st)
          [] e.node = "Binop" -> LET a == compile_expr(e.kids[1], path \o <<1>>, st)
                                 IN  IF ~a.ok THEN a
                                     ELSE LET b == compile_expr(e.kids[2], path \o <<2>>, StOf(a))
                                          IN  IF ~b.ok THEN b ELSE compile_op(a.val, e.name, b.val, path, StOf(b))
          [] e.node = "Identifier" -> CompileIdentifier(e.name, path, st)
          [] e.node = "None" -> Ok(Val("Void", 0, path), st)
          [] e.node = "True" -> Ok(Val("Bool", 1, path), st)
          [] e.node = "False" -> Ok(Val("Bool", 0, path), st)
          [] e.node = "Unop" -> LET a == e.kids[1]
                                IN  CASE a.node = "Integer" -> IF e.name = "Neg" THEN Ok(UnopNegInteger(a.n, path), st) ELSE Panic("UnsupportedUnaryOperator", FALSE, "", st)
                                      [] a.node = "Float" -> IF e.name = "Neg" THEN Ok(Val("F32", -a.n, path), st) ELSE Panic("UnsupportedUnaryOperator", FALSE, "", st)
                                      [] a.node = "Complex" -> Panic("UnsupportedLiteral", TRUE, "", st)
                                      [] OTHER -> Panic("UnsupportedUnaryOperand", FALSE, "", st)
          [] e.node = "Ellipsis" -> Panic("UnsupportedLiteral", FALSE, "", st)
          [] OTHER -> Panic("UnsupportedExpression", TRUE, "", st)

(* ------------------------------ inputs --------------------------------- *)

IntMagnitudes == {0, 1, 255, 256, 32767, 32768, 65535, 65536, 65537, 70000, 2147483647}

IntLiterals == IntMagnitudes \cup {-m : m \in IntMagnitudes}

Attribute(name) == Node("Attribute", 0, name, <<>>)

Literals == {Integer(n) : n \in IntLiterals} \cup {Float(2), Complex, String("s"), NoneExpr, TrueExpr, FalseExpr, Ellipsis, Lambda, Identifier("x")}

Unops == {Unop("Neg", a) : a \in {Integer(n) : n \in IntLiterals} \cup {Float(2), Complex, Identifier("x")}} \cup {Unop("Not", a) : a \in {Integer(1), Float(2), Identifier("x")}}

Operands == {Integer(1), Identifier("x"), Binop(Identifier("x"), "Add", Integer(1))}

Binops == {Binop(a, "Add", b) : a \in Operands, b \in Operands}

ArgExprs == {Integer(456), Identifier("x"), TrueExpr, NoneExpr}

Calls == {Call(Identifier("f"), a) : a \in SeqsUpTo(ArgExprs, MaxArgs)} \cup {Call(Attribute("f"), a) : a \in SeqsUpTo({Integer(456)}, MaxArgs)}

Exprs == Literals \cup Unops \cup Binops \cup Calls

\* the functions the top-level compiler may have declared before any
\* expression is lowered: a plain f of any signature, and overloads of f
\* by the type of the first argument
PlainTables == {<<>>} \cup {[k \in {"f"} |-> Signature(p, "I16")] : p \in SeqsUpTo(ParamTypes, MaxParams)}

Overloads == {<<>>, [k \in {mangling("f", "I16")} |-> Signature(<<"I8", "F32">>, "I8")], [k \in {mangling("f", "F32")} |-> Signature(<<"F32", "I16">>, "Void")], [k \in {mangling("f", "I16"), mangling("f", "F32")} |-> IF k = mangling("f", "I16") THEN Signature(<<"I8", "F32">>, "I8") ELSE Signature(<<"F32", "I16">>, "Void")]}

Merge(f, g) == [k \in DOMAIN f \cup DOMAIN g |-> IF k \in DOMAIN f THEN f[k] ELSE g[k]]

FunctionTables == {Merge(p, o) : p \in PlainTables, o \in Overloads}

NoExpr == Node("", 0, "", <<>>)

(* --------------------------- state machine ----------------------------- *)

\* what the caller of compile_expr gets: the Value, or the panic
Result(r) == [ok |-> r.ok, val |-> r.val, err |-> r.err]

Init == /\ variables \in ScopesOf("global", GlobalTypes)
        /\ fn_scope \in [FnValues -> ScopesOf("local", LocalTypes)]
        /\ fn_value_opt \in {<<>>} \cup {<<f>> : f \in FnValues}
        /\ functions \in FunctionTables
        /\ current_source_location = NoLocation
        /\ log = <<>>
        /\ expr = NoExpr
        /\ res = Result(Ok(NoValue, St(<<>>, NoLocation)))
        /\ pc = "ready"

\* the statement compiler lowers the expression of a statement
Lower(e) == /\ pc = "ready"
            /\ LET r == compile_expr(e, <<>>, St(<<>>, current_source_location))
               IN  /\ res' = Result(r)
                   /\ log' = r.log
                   /\ current_source_location' = r.loc
                   /\ pc' = IF r.ok THEN "lowered" ELSE "failed"
            /\ expr' = e
            /\ UNCHANGED <<variables, fn_scope, fn_value_opt, functions>>

Next == \E e \in Exprs : Lower(e)

Spec == Init /\ [][Next]_vars

(* --------------------- vocabulary of the properties -------------------- *)

Lowered == pc # "ready"

InFunction == fn_value_opt # <<>>

Positions(ev) == {k \in 1..Len(log) : log[k].ev = ev}

\* the invocations of compile_expr on the node at a path
Entered(path) == {k \in Positions("compile_expr") : log[k].path = path}

Lookups == Positions("get_function")

CallsEmitted == Positions("build_call")

Targets == {log[k].name : k \in CallsEmitted}

Args == Tail(expr.kids)

NArgs == Len(expr.kids) - 1

ArgPath(i) == <<i + 1>>

IsPrefix(p, q) == Len(p) <= Len(q) /\ SubSeq(q, 1, Len(p)) = p

\* a call whose callee is a plain identifier has been handed to the compiler
PlainCall == Lowered /\ expr.node = "Call" /\ expr.kids[1].node = "Identifier"

Callee == expr.kids[1].name

LocallyBound(name) == InFunction /\ name \in DOMAIN fn_scope[fn_value_opt[1]]

GloballyBound(name) == name \in DOMAIN variables

\* the Symbol the scope rules give a name: local first, global as fallback
Visible(name) == IF LocallyBound(name) THEN fn_scope[fn_value_opt[1]][name] ELSE variables[name]

\* an argument expression of the inputs lowers to a value
Lowers(a) == a.node = "Identifier" => (LocallyBound(a.name) \/ GloballyBound(a.name))

\* the tag and the number of the value an argument expression lowers to
TagOf(a) == CASE a.node = "Integer" -> "I16"
              [] a.node = "Identifier" -> Visible(a.name).ty
              [] a.node = "True" -> "Bool"
              [] OTHER -> "Void"

NumOf(a) == IF a.node = "Integer" THEN a.n ELSE Content(Visible(a.name).ty)

\* the function a call with a lowered first argument resolves to
Overload == mangling(Callee, TagOf(Args[1]))

Target == IF Callee \in DOMAIN functions THEN Callee ELSE Overload

ResolvedCall == PlainCall /\ NArgs >= 1 /\ Lowers(Args[1]) /\ Target \in DOMAIN functions

Params == functions[Target].params

Paired == 1..Min(NArgs, Len(Params))

\* the tag has a casting rule for the parameter it is paired with
Castable(tag, proto) == tag \in {"F32", "Str"} \/ (tag \in IntTypes /\ proto \in IntTypes)

PairsCastable(S) == \A i \in S : Lowers(Args[i]) /\ Castable(TagOf(Args[i]), Params[i])

TwosComplement16(n) == IF (n % 65536) >= 32768 THEN (n % 65536) - 65536 ELSE n % 65536

LocatedKinds == {"NameError", "UndefinedFunction", "UnsupportedLiteral", "UnsupportedContext", "UnsupportedUnaryOperand", "UnsupportedCallee", "UnsupportedArgumentType", "UnsupportedExpression"}

(* ------------------------------ properties ----------------------------- *)

\* C1: a zero-argument call f() of a plain identifier succeeds exactly when
\* f is in the function table: with f present the call is emitted with no
\* arguments and a value is returned, with f absent it fails with
\* UndefinedFunction after looking up the plain name only.
C1_ZeroArgumentCall == (PlainCall /\ NArgs = 0) => IF Callee \in DOMAIN functions THEN res.ok /\ Targets = {Callee} /\ \A k \in CallsEmitted : log[k].vals = <<>> ELSE ~res.ok /\ res.err.kind = "UndefinedFunction" /\ CallsEmitted = {} /\ \A k \in Lookups : log[k].name = Callee

\* C2 as stated: in a completed call with more arguments than the resolved
\* signature has parameters, every argument expression is lowered.
C2_EveryArgumentLowered == (ResolvedCall /\ NArgs > Len(Params) /\ res.ok) => \A i \in 1..NArgs : Entered(ArgPath(i)) # {}

\* C2 amended: of a call with more arguments than the resolved signature
\* has parameters, compile_expr is never invoked on an argument that is
\* neither paired with a parameter nor the first one, and when the call
\* completes it was invoked exactly once on each of the others.
C2_OnlyPairedArgumentsLowered == (ResolvedCall /\ NArgs > Len(Params)) => /\ \A i \in 1..NArgs : (i > Max(Len(Params), 1)) => (Entered(ArgPath(i)) = {})
                                                                         /\ (res.ok => \A i \in 1..Max(Len(Params), 1) : Cardinality(Entered(ArgPath(i))) = 1)

C2_Witness == ResolvedCall /\ NArgs = 3 /\ Len(Params) = 2 /\ res.ok /\ Entered(ArgPath(2)) # {} /\ Entered(ArgPath(3)) = {}

\* C3: a resolved call of n >= 1 arguments against m parameters whose paired
\* arguments all have a castable tag emits one call that receives exactly
\* min(n, m) values, the i-th made from the i-th argument expression, and
\* raises no error, whatever the order of n and m.
C3_PairedUpToShorter == (ResolvedCall /\ PairsCastable(Paired)) => /\ res.ok /\ res.err = NoError
                                                                  /\ Cardinality(CallsEmitted) = 1
                                                                  /\ \A k \in CallsEmitted : /\ Len(log[k].vals) = Min(NArgs, Len(Params))
                                                                                             /\ \A i \in 1..Len(log[k].vals) : log[k].vals[i].src = ArgPath(i)

C3_Witness == ResolvedCall /\ PairsCastable(Paired) /\ NArgs = 3 /\ Len(Params) = 2 /\ \E k \in CallsEmitted : Len(log[k].vals) = 2 /\ log[k].vals[2].src = ArgPath(2)

\* C4: inside a function body a name bound locally resolves to the local
\* Symbol even when the global scope binds it too; a name bound only
\* globally resolves to the global Symbol; outside a function body only the
\* global scope counts; NameError(name) is raised exactly when the name is
\* in no applicable scope. The value carries the Symbol's declared type.
C4_IdentifierResolution == (Lowered /\ expr.node = "Identifier") => IF LocallyBound(expr.name) THEN res.ok /\ res.val.tag = fn_scope[fn_value_opt[1]][expr.name].ty /\ \E k \in Positions("build_load") : log[k].name = fn_scope[fn_value_opt[1]][expr.name].pointer
                                                                   ELSE IF GloballyBound(expr.name) THEN res.ok /\ res.val.tag = variables[expr.name].ty /\ \E k \in Positions("build_load") : log[k].name = variables[expr.name].pointer
                                                                   ELSE ~res.ok /\ res.err.kind = "NameError" /\ res.err.name = expr.name /\ Positions("build_load") = {}

C4_Witness == Lowered /\ expr = Identifier("x") /\ InFunction /\ LocallyBound("x") /\ GloballyBound("x") /\ variables["x"].ty = "I16" /\ res.ok /\ res.val.tag = "F32"

\* C5: a call f(a, ...) whose first argument lowers targets the plain f when
\* the table has it, whether or not an overload for the first argument's tag
\* exists too; otherwise the overload mangling(f, tag) when the table has
\* it; otherwise it fails with UndefinedFunction(f) and emits no call.
C5_FunctionResolution == (PlainCall /\ NArgs >= 1 /\ Lowers(Args[1])) => IF Callee \in DOMAIN functions THEN Targets \subseteq {Callee} /\ (res.ok => Targets = {Callee}) /\ res.err.kind # "UndefinedFunction"
                                                                        ELSE IF Overload \in DOMAIN functions THEN Targets \subseteq {Overload} /\ (res.ok => Targets = {Overload}) /\ res.err.kind # "UndefinedFunction"
                                                                        ELSE ~res.ok /\ res.err.kind = "UndefinedFunction" /\ res.err.name = Callee /\ CallsEmitted = {}

C5_Witness == PlainCall /\ NArgs >= 1 /\ Callee \notin DOMAIN functions /\ Lowers(Args[1]) /\ TagOf(Args[1]) = "I16" /\ Overload \in DOMAIN functions /\ res.ok /\ Targets = {mangling("f", "I16")}

\* C6: a call whose callee is no plain identifier fails with
\* UnsupportedCallee before any argument is lowered, any function is looked
\* up or any call is emitted.
C6_UnsupportedCallee == (Lowered /\ expr.node = "Call" /\ expr.kids[1].node # "Identifier") => ~res.ok /\ res.err.kind = "UnsupportedCallee" /\ log = <<Ev("compile_expr", <<>>, "Call", <<>>)>>

C6_Witness == Lowered /\ expr.node = "Call" /\ expr.kids[1].node = "Attribute" /\ NArgs = 2 /\ res.err.kind = "UnsupportedCallee"

\* C7: the value passed for a paired argument follows the argument's tag:
\* an I16 argument is cut to the low bits of the integer parameter's width
\* and is never wider than 16 bits, an I8 argument reaches an integer
\* parameter with its signed number kept, F32 and Str arguments pass
\* unchanged, and a Bool or Void argument fails with
\* UnsupportedArgumentType without a call being emitted.
C7_ArgumentCasts == ResolvedCall => /\ \A k \in CallsEmitted : \A i \in 1..Len(log[k].vals) :
                                          LET t == TagOf(Args[i])
                                              v == log[k].vals[i]
                                          IN  /\ (t = "I16" => (v.tag = Params[i] /\ v.tag \in IntTypes /\ (v.n - NumOf(Args[i])) % Pow2(BitWidth(Params[i])) = 0 /\ 2 * v.n < Pow2(BitWidth(Params[i])) /\ 2 * v.n >= -Pow2(BitWidth(Params[i]))))
                                              /\ (t = "I8" => (v.tag = Params[i] /\ v.tag \in IntTypes /\ v.n = NumOf(Args[i])))
                                              /\ (t \in {"F32", "Str"} => (v.tag = t /\ v.n = NumOf(Args[i])))
                                    /\ \A i \in Paired : (PairsCastable(1..(i - 1)) /\ Lowers(Args[i]) /\ TagOf(Args[i]) \in {"Bool", "Void"}) => (~res.ok /\ res.err.kind = "UnsupportedArgumentType" /\ CallsEmitted = {})

C7_Witness == ResolvedCall /\ NArgs = 2 /\ Args[1] = Integer(456) /\ Args[2].node = "Identifier" /\ Lowers(Args[2]) /\ TagOf(Args[2]) = "I8" /\ Params = <<"I8", "I16">> /\ \E k \in CallsEmitted : log[k].vals[1].n = -56 /\ log[k].vals[2].n = -3

\* C8: an integer literal n lowers to an I16, never an I8, whose number is n
\* for -32768 <= n <= 32767 and otherwise n mod 65536 read as a signed
\* 16-bit two's-complement number; the negation of an integer literal n
\* lowers to the I16 of -n cut the same way.
C8_IntegerLiteral == /\ (Lowered /\ expr.node = "Integer") => (res.ok /\ res.val.tag = "I16" /\ res.val.n = TwosComplement16(expr.n) /\ ((expr.n >= -32768 /\ expr.n <= 32767) => res.val.n = expr.n))
                     /\ (Lowered /\ expr.node = "Unop" /\ expr.name = "Neg" /\ expr.kids[1].node = "Integer") => (res.ok /\ res.val.tag = "I16" /\ res.val.n = TwosComplement16(-expr.kids[1].n))

C8_Witness == Lowered /\ expr = Integer(70000) /\ res.ok /\ res.val.tag = "I16" /\ res.val.n = 4464

\* C9: every failure of one of the listed kinds carries the current source
\* location together with its kind.
C9_FailuresLocated == (pc = "failed" /\ res.err.kind \in LocatedKinds) => res.err.located /\ res.err.loc = current_source_location

====
